---- MODULE Spec2Model ----
(***************************************************************************)
(* A model of react-component-tree-generator.py: regex extraction of the   *)
(* used components of a file, construction of the component graph, root    *)
(* detection by in-degree and the recursive markdown rendering.            *)
(*                                                                         *)
(* File contents are sequences of lexical tokens; the three regular        *)
(* expressions of the program are modelled as matchers over tokens.        *)
(* Python dicts are sequences of entries (insertion order is kept), Python *)
(* sets are sets, iterated in an order fixed by a hash seed.               *)
(***************************************************************************)
EXTENDS Integers, Sequences, FiniteSets, TLC

\* ------------------------------------------------------------ bounds ----
\* Most files a run discovers.
MaxFiles == 2
\* Most statements in a file whose extraction is checked on its own.
MaxStmts == 2
\* Most edges of a graph handed directly to find_roots / generate_markdown_tree.
MaxEdges == 4
\* The interpreter's recursion limit (sys.getrecursionlimit()), scaled down.
RecursionLimit == 6

\* The identifiers that occur in file names, tags and imports.
Names == {"A", "B", "C"}
\* The module strings that occur in imports.
Modules == {"mylib", "other"}
\* No alias in a named import specifier.
None == ""

\* ------------------------------------------------------------ tokens ----
Tok(t, v) == [t |-> t, v |-> v]
ID(n) == Tok("id", n)
STR(m) == Tok("str", m)
SP == Tok("sp", "")
NL == Tok("nl", "")
IMPORT == Tok("import", "")
FROM == Tok("from", "")
AS == Tok("as", "")
LBRACE == Tok("lbrace", "")
RBRACE == Tok("rbrace", "")
COMMA == Tok("comma", "")
LT == Tok("lt", "")
PUNCT == Tok("punct", "")
EOF == Tok("eof", "")

\* toks[i], or EOF past either end.
At(toks, i) == IF i \in 1..Len(toks) THEN toks[i] ELSE EOF

\* \s : a space or a newline.
IsWs(tok) == tok.t \in {"sp", "nl"}

\* The first index >= i that holds no whitespace (\s* consumed greedily).
RECURSIVE SkipWs(_, _)
SkipWs(toks, i) == IF IsWs(At(toks, i)) THEN SkipWs(toks, i + 1) ELSE i

\* The first index >= i that holds "}" or lies past the end ([^}]* consumed).
RECURSIVE SkipToRbrace(_, _)
SkipToRbrace(toks, i) ==
    IF i > Len(toks) \/ toks[i].t = "rbrace" THEN i ELSE SkipToRbrace(toks, i + 1)

\* A string that is no capitalised identifier: what a specifier that is not
\* a single identifier (it holds whitespace or punctuation) reads as.
NotAnIdentifier == "<not an identifier>"

\* import\s+([A-Z][a-zA-Z0-9_]*)\s+from\s+['"]([^'"]+)['"]  matched at i.
MatchDefault(toks, i) ==
    LET b == SkipWs(toks, i + 1)
        d == SkipWs(toks, b + 1)
        f == SkipWs(toks, d + 1)
    IN  [ok |-> /\ At(toks, i).t = "import"
                /\ b > i + 1 /\ At(toks, b).t = "id"
                /\ d > b + 1 /\ At(toks, d).t = "from"
                /\ f > d + 1 /\ At(toks, f).t = "str",
         end |-> f,
         comp |-> At(toks, b).v,
         module |-> At(toks, f).v]

\* import\s*\{([^}]+)\}\s*from\s*['"]([^'"]+)['"]  matched at i.
MatchNamed(toks, i) ==
    LET a == SkipWs(toks, i + 1)
        r == SkipToRbrace(toks, a + 1)
        d == SkipWs(toks, r + 1)
        f == SkipWs(toks, d + 1)
    IN  [ok |-> /\ At(toks, i).t = "import"
                /\ At(toks, a).t = "lbrace"
                /\ r > a + 1 /\ At(toks, r).t = "rbrace"
                /\ At(toks, d).t = "from"
                /\ At(toks, f).t = "str",
         end |-> f,
         comps |-> IF r > a + 1 /\ r <= Len(toks) + 1
                   THEN SubSeq(toks, a + 1, r - 1) ELSE <<>>,
         module |-> At(toks, f).v]

\* re.findall: the non-overlapping matches, scanning from the left.
RECURSIVE FindallDefault(_, _)
FindallDefault(toks, i) ==
    IF i > Len(toks) THEN <<>>
    ELSE LET m == MatchDefault(toks, i)
         IN  IF m.ok THEN <<m>> \o FindallDefault(toks, m.end + 1)
             ELSE FindallDefault(toks, i + 1)

RECURSIVE FindallNamed(_, _)
FindallNamed(toks, i) ==
    IF i > Len(toks) THEN <<>>
    ELSE LET m == MatchNamed(toks, i)
         IN  IF m.ok THEN <<m>> \o FindallNamed(toks, m.end + 1)
             ELSE FindallNamed(toks, i + 1)

\* re.findall(r'<([A-Z][a-zA-Z0-9_]*)'): "<" directly followed by an identifier.
FindallTags(toks) ==
    {toks[i + 1].v : i \in {j \in 1..(Len(toks) - 1) :
                              toks[j].t = "lt" /\ toks[j + 1].t = "id"}}

\* str.split(','): the pieces between commas.
RECURSIVE SplitComma(_, _)
SplitComma(toks, piece) ==
    IF toks = <<>> THEN <<piece>>
    ELSE IF Head(toks).t = "comma"
         THEN <<piece>> \o SplitComma(Tail(toks), <<>>)
         ELSE SplitComma(Tail(toks), Append(piece, Head(toks)))

\* str.strip(): leading and trailing whitespace removed.
RECURSIVE Strip(_)
Strip(toks) ==
    IF toks = <<>> THEN <<>>
    ELSE IF IsWs(Head(toks)) THEN Strip(Tail(toks))
    ELSE IF IsWs(toks[Len(toks)]) THEN Strip(SubSeq(toks, 1, Len(toks) - 1))
    ELSE toks

\* str.split(' as ')[0]: what precedes the first space, "as", space.
RECURSIVE BeforeAs(_, _)
BeforeAs(toks, i) ==
    IF i + 2 > Len(toks) THEN toks
    ELSE IF toks[i].t = "sp" /\ toks[i + 1].t = "as" /\ toks[i + 2].t = "sp"
         THEN SubSeq(toks, 1, i - 1)
         ELSE BeforeAs(toks, i + 1)

\* comp.strip().split(' as ')[0].strip(), as the string it is ("" when empty).
CompName(piece) ==
    LET name == Strip(BeforeAs(Strip(piece), 1))
    IN  IF name = <<>> THEN ""
        ELSE IF Len(name) = 1 /\ name[1].t = "id" THEN name[1].v
        ELSE NotAnIdentifier

\* A discovered file: its component name (the file name without extension),
\* whether open()/read() succeeds, and its text.
File(name, readable, content) ==
    [name |-> name, readable |-> readable, content |-> content]

\* extract_component_name.
extract_component_name(file) == file.name

\* The message an except branch prints.
ErrorMessage(prefix, file) == [text |-> prefix, file |-> file.name]

\* extract_imported_ignored_components: [ignored, printed].
extract_imported_ignored_components(file, ignore_libs) ==
    IF ~file.readable
    THEN [ignored |-> {}, printed |-> <<ErrorMessage("Error reading imports in", file)>>]
    ELSE LET default_imports == FindallDefault(file.content, 1)
             named_imports == FindallNamed(file.content, 1)
             fromDefault == {default_imports[i].comp :
                               i \in {j \in DOMAIN default_imports :
                                        default_imports[j].module \in ignore_libs}}
             pieces(m) == SplitComma(m.comps, <<>>)
             fromNamed == UNION {{CompName(pieces(named_imports[i])[k]) :
                                     k \in DOMAIN pieces(named_imports[i])} :
                                 i \in {j \in DOMAIN named_imports :
                                          named_imports[j].module \in ignore_libs}}
         IN  [ignored |-> fromDefault \cup (fromNamed \ {""}), printed |-> <<>>]

\* extract_used_components without its try/except: a read error is raised.
extract_used_components_uncaught(file, ignore_libs) ==
    IF ~file.readable
    THEN [used |-> {}, printed |-> <<>>, raised |-> TRUE]
    ELSE LET matches == FindallTags(file.content)
             imp == extract_imported_ignored_components(file, ignore_libs)
         IN  [used |-> matches \ imp.ignored, printed |-> imp.printed,
              raised |-> FALSE]

\* extract_used_components: [used, printed, raised]. The except branch
\* catches every read error, so nothing is raised to the caller.
extract_used_components(file, ignore_libs) ==
    IF ~file.readable
    THEN [used |-> {}, printed |-> <<ErrorMessage("Error reading", file)>>,
          raised |-> FALSE]
    ELSE LET matches == FindallTags(file.content)
             imp == extract_imported_ignored_components(file, ignore_libs)
         IN  [used |-> matches \ imp.ignored, printed |-> imp.printed,
              raised |-> FALSE]

\* ------------------------------------------------- dicts, sets, sorting ----
\* The iteration orders of a Python set of strings: one per hash seed
\* (PYTHONHASHSEED is drawn afresh by every interpreter start).
HashSeeds == {<<"A", "B", "C">>, <<"C", "B", "A">>}

\* for x in S: the elements of set S in the order the seed fixes.
Iter(S, seed) == SelectSeq(seed, LAMBDA n : n \in S)

\* The alphabet in lexicographic order, and a string's place in it.
Alphabet == <<"A", "B", "C">>
Rank(n) == CHOOSE i \in DOMAIN Alphabet : Alphabet[i] = n

\* Insertion of n into a sorted list, after its equals (sorted() is stable).
RECURSIVE InsertSorted(_, _)
InsertSorted(list, n) ==
    IF list = <<>> THEN <<n>>
    ELSE IF Rank(n) < Rank(Head(list)) THEN <<n>> \o list
    ELSE <<Head(list)>> \o InsertSorted(Tail(list), n)

RECURSIVE SortFrom(_, _)
SortFrom(list, acc) ==
    IF list = <<>> THEN acc ELSE SortFrom(Tail(list), InsertSorted(acc, Head(list)))

\* sorted(list) left out: the list as it is.
unsorted(list) == list

\* sorted(list).
sorted(list) == SortFrom(list, <<>>)

\* The keys of a dict, a sequence of [comp, used] entries.
Keys(graph) == {graph[i].comp : i \in DOMAIN graph}

\* list(graph): the keys in insertion order.
KeyList(graph) == [i \in DOMAIN graph |-> graph[i].comp]

\* graph.get(node, []).
graph_get(graph, node) ==
    IF node \in Keys(graph)
    THEN graph[CHOOSE i \in DOMAIN graph : graph[i].comp = node].used
    ELSE {}

\* graph[comp].add(used_comp) on a defaultdict(set): a missing key is created.
graph_add(graph, comp, used_comp) ==
    IF comp \in Keys(graph)
    THEN [i \in DOMAIN graph |->
            IF graph[i].comp = comp
            THEN [comp |-> comp, used |-> graph[i].used \cup {used_comp}]
            ELSE graph[i]]
    ELSE Append(graph, [comp |-> comp, used |-> {used_comp}])

\* keep_edge without the project-only test.
keep_edge_always(project_only, used_comp, component_set) == TRUE

\* if not project_only or used_comp in component_set.
keep_edge(project_only, used_comp, component_set) ==
    ~project_only \/ used_comp \in component_set

\* The inner loop of build_component_graph over one file's used components.
RECURSIVE add_used(_, _, _, _, _)
add_used(graph, comp, usedList, project_only, component_set) ==
    IF usedList = <<>> THEN graph
    ELSE add_used(IF keep_edge(project_only, Head(usedList), component_set)
                  THEN graph_add(graph, comp, Head(usedList))
                  ELSE graph,
                  comp, Tail(usedList), project_only, component_set)

\* -------------------------------------------------------- find_roots ----
\* in_degree[node] on a defaultdict(int): a missing key is created with 0.
touch(in_degree, node) ==
    IF \E i \in DOMAIN in_degree : in_degree[i].node = node THEN in_degree
    ELSE Append(in_degree, [node |-> node, deg |-> 0])

\* in_degree[child] += 1.
increment(in_degree, child) ==
    LET d == touch(in_degree, child)
    IN  [i \in DOMAIN d |->
           IF d[i].node = child THEN [node |-> child, deg |-> d[i].deg + 1]
           ELSE d[i]]

\* touch_all without the loop that makes every key exist.
touch_all_skipped(in_degree, nodes) == in_degree

\* for node in graph: in_degree[node].
RECURSIVE touch_all(_, _)
touch_all(in_degree, nodes) ==
    IF nodes = <<>> THEN in_degree
    ELSE touch_all(touch(in_degree, Head(nodes)), Tail(nodes))

\* for child in graph[parent]: in_degree[child] += 1.
RECURSIVE count_children(_, _)
count_children(in_degree, children) ==
    IF children = <<>> THEN in_degree
    ELSE count_children(increment(in_degree, Head(children)), Tail(children))

\* for parent in graph: for child in graph[parent]: ...
RECURSIVE count_edges(_, _, _, _)
count_edges(in_degree, graph, parents, seed) ==
    IF parents = <<>> THEN in_degree
    ELSE count_edges(count_children(in_degree,
                                    Iter(graph_get(graph, Head(parents)), seed)),
                     graph, Tail(parents), seed)

\* deg == 0.
is_root(deg) == deg = 0

\* find_roots: the nodes of in_degree, in its order, whose degree is 0.
find_roots(graph, seed) ==
    LET in_degree == count_edges(touch_all(<<>>, KeyList(graph)), graph,
                                 KeyList(graph), seed)
        zero == SelectSeq(in_degree, LAMBDA e : is_root(e.deg))
    IN  [i \in DOMAIN zero |-> zero[i].node]

\* ------------------------------------------------ generate_markdown_tree ----
\* A line of text. depth is the nesting level of a bullet (not written).
Text(text) == [kind |-> "text", spaces |-> 0, text |-> text, depth |-> 0]
Heading(root) == [kind |-> "heading", spaces |-> 0, text |-> root, depth |-> 0]
\* What stands for the RecursionError raised past the recursion limit.
RecursionError == [kind |-> "RecursionError", spaces |-> 0, text |-> "", depth |-> 0]

\* Len("  " * indent).
leading_spaces(indent) == 2 * indent

\* "  " * indent + f"- {node}\n".
Bullet(indent, node) ==
    [kind |-> "bullet", spaces |-> leading_spaces(indent), text |-> node,
     depth |-> indent]

\* child_visited without visited.add(node).
child_visited_no_add(visited, node) == visited

\* visited.add(node); visited.copy(): the set each child call receives.
child_visited(visited, node) == visited \cup {node}

\* children_of without sorted(): the set in its iteration order.
children_of_unsorted(graph, node, seed) == Iter(graph_get(graph, node), seed)

\* sorted(graph.get(node, [])).
children_of(graph, node, seed) == sorted(Iter(graph_get(graph, node), seed))

RECURSIVE generate_markdown_tree(_, _, _, _, _)
RECURSIVE render_children(_, _, _, _, _)

\* render_children that returns after the first child.
render_children_first(graph, children, indent, visited, seed) ==
    IF children = <<>> THEN <<>>
    ELSE generate_markdown_tree(graph, Head(children), indent, visited, seed)

\* for child in ...: md += generate_markdown_tree(graph, child, indent + 1, ...).
render_children(graph, children, indent, visited, seed) ==
    IF children = <<>> THEN <<>>
    ELSE generate_markdown_tree(graph, Head(children), indent, visited, seed)
         \o render_children(graph, Tail(children), indent, visited, seed)

\* generate_markdown_tree: the lines of the string it returns, each ended by
\* "\n". A call nested deeper than the recursion limit raises RecursionError.
generate_markdown_tree(graph, node, indent, visited, seed) ==
    IF indent > RecursionLimit THEN <<RecursionError>>
    ELSE IF node \in visited THEN <<Bullet(indent, node)>>
    ELSE <<Bullet(indent, node)>>
         \o render_children(graph, children_of(graph, node, seed), indent + 1,
                            child_visited(visited, node), seed)

\* Whether a rendering raised.
Raised(md) == \E i \in DOMAIN md : md[i].kind = "RecursionError"

\* The six entries main starts md_lines with.
FrontMatter ==
    <<Text("---"), Text("title: Component Tree"), Text("markmap:"),
      Text("  colorFreezeLevel: 4"), Text("---"), Text("")>>

\* The message main prints last.
Success == [text |-> "Markdown file 'componentsTree.mm.md' generated successfully.",
            file |-> ""]

\* ------------------------------------------------------------ inputs ----
\* The statements a file is written from, and the tokens each is written as.
Specifier(name, alias) == [name |-> name, alias |-> alias]
Stmt(kind, name, specs, module, multiline) ==
    [kind |-> kind, name |-> name, specs |-> specs, module |-> module,
     multiline |-> multiline]
\* <Name/>
TagStmt(name) == Stmt("tag", name, <<>>, "", FALSE)
\* import Name from 'module';
DefaultStmt(name, module) == Stmt("default", name, <<>>, module, FALSE)
\* import { X, Y as Z } from 'module';
NamedStmt(specs, module, multiline) == Stmt("named", "", specs, module, multiline)
\* import Name, { X } from 'module';
MixedStmt(name, specs, module) == Stmt("mixed", name, specs, module, FALSE)

PrintSpecifier(s) ==
    IF s.alias = None THEN <<ID(s.name)>>
    ELSE <<ID(s.name), SP, AS, SP, ID(s.alias)>>

\* "X, Y as Z" on one line, or one specifier per line with a trailing comma.
RECURSIVE PrintSpecList(_, _)
PrintSpecList(specs, multiline) ==
    IF specs = <<>> THEN <<>>
    ELSE IF multiline
         THEN <<NL, SP, SP>> \o PrintSpecifier(Head(specs)) \o <<COMMA>>
              \o PrintSpecList(Tail(specs), multiline)
         ELSE <<SP>> \o PrintSpecifier(Head(specs))
              \o (IF Len(specs) > 1 THEN <<COMMA>> ELSE <<>>)
              \o PrintSpecList(Tail(specs), multiline)

PrintBraces(specs, multiline) ==
    <<LBRACE>> \o PrintSpecList(specs, multiline)
    \o (IF multiline THEN <<NL>> ELSE <<SP>>) \o <<RBRACE>>

PrintStmt(s) ==
    CASE s.kind = "tag" -> <<LT, ID(s.name), PUNCT>>
      [] s.kind = "default" ->
           <<IMPORT, SP, ID(s.name), SP, FROM, SP, STR(s.module), PUNCT>>
      [] s.kind = "named" ->
           <<IMPORT, SP>> \o PrintBraces(s.specs, s.multiline)
           \o <<SP, FROM, SP, STR(s.module), PUNCT>>
      [] s.kind = "mixed" ->
           <<IMPORT, SP, ID(s.name), COMMA, SP>> \o PrintBraces(s.specs, FALSE)
           \o <<SP, FROM, SP, STR(s.module), PUNCT>>

\* The text of a file: its statements, one per line.
RECURSIVE Content(_)
Content(stmts) ==
    IF stmts = <<>> THEN <<>>
    ELSE PrintStmt(Head(stmts)) \o <<NL>> \o Content(Tail(stmts))

\* The pairs of two different names.
Pairs == {p \in Names \X Names : p[1] # p[2]}

PlainSpecLists ==
    {<<Specifier(n, None)>> : n \in Names}
    \cup {<<Specifier(p[1], None), Specifier(p[2], None)>> : p \in Pairs}
AliasSpecLists == {<<Specifier(p[1], p[2])>> : p \in Pairs}

\* The statements of the files whose extraction is checked on its own.
Stmts ==
    {TagStmt(n) : n \in Names}
    \cup {DefaultStmt(n, m) : n \in Names, m \in Modules}
    \cup {NamedStmt(l, m, FALSE) : l \in PlainSpecLists \cup AliasSpecLists,
                                   m \in Modules}
    \cup {NamedStmt(l, m, TRUE) : l \in PlainSpecLists, m \in Modules}
    \cup {MixedStmt(p[1], <<Specifier(p[2], None)>>, m) :
            p \in Pairs, m \in Modules}

\* The sequences over S of length at most n.
RECURSIVE SeqsUpTo(_, _)
SeqsUpTo(S, n) ==
    IF n = 0 THEN {<<>>}
    ELSE LET shorter == SeqsUpTo(S, n - 1)
         IN  shorter \cup {Append(q, x) : q \in shorter, x \in S}

\* The subsets of S of at most n elements.
RECURSIVE SubsetsUpTo(_, _)
SubsetsUpTo(S, n) ==
    IF n = 0 THEN {{}}
    ELSE LET smaller == SubsetsUpTo(S, n - 1)
         IN  smaller \cup {T \cup {x} : T \in smaller, x \in S}

\* The tags <n/> for n in T, in alphabetical order.
TagStmts(T) ==
    LET l == Iter(T, Alphabet) IN [i \in DOMAIN l |-> TagStmt(l[i])]

\* The texts of the files of a run: no tag, one tag, tags A and B, tags B
\* and C, or tags B and C after a named import of B from mylib.
FileContents ==
    {Content(TagStmts(T)) : T \in {{}, {"A"}, {"B"}, {"C"}, {"A", "B"}, {"B", "C"}}}
    \cup {Content(<<NamedStmt(<<Specifier("B", None)>>, "mylib", FALSE)>>
                  \o TagStmts({"B", "C"}))}

\* The files of a run: readable ones, and unreadable ones (whose bytes on
\* disk would read as tags of every name).
FileOptions ==
    {File(n, TRUE, c) : n \in Names, c \in FileContents}
    \cup {File(n, FALSE, Content(TagStmts(Names))) : n \in Names}

\* An ordered dict with the keys of K, in the order of the seed, and the
\* edges of E.
GraphOf(K, E, seed) ==
    LET l == Iter(K, seed)
    IN  [i \in DOMAIN l |->
           [comp |-> l[i], used |-> {e[2] : e \in {x \in E : x[1] = l[i]}}]]

\* The graphs handed directly to find_roots and generate_markdown_tree:
\* every key with at least one edge, plus any keys with an empty set.
Graphs ==
    UNION {{GraphOf({e[1] : e \in E} \cup K, E, seed) :
              K \in SUBSET Names, seed \in HashSeeds} :
           E \in SubsetsUpTo(Names \X Names, MaxEdges)}

\* ------------------------------------------------------------- state ----
VARIABLES
    files,        \* the files get_component_files returned
    ignore_libs,  \* --ignore-libs
    project_only, \* --project-only
    phase,        \* where the run is
    todo,         \* the files build_component_graph has not visited yet
    graph,        \* the defaultdict(set) being built
    roots,        \* the sorted roots main has not rendered yet
    md_lines,     \* main's md_lines, as the lines of their join
    output,       \* componentsTree.mm.md
    stdout,       \* what was printed to standard output
    stderr,       \* what was printed to standard error
    run,          \* 1 for the first run over the directory, 2 for the second
    prev_output,  \* componentsTree.mm.md as the first run left it
    call,         \* the node of a direct call of generate_markdown_tree
    tree,         \* what that call returned
    stmts,        \* the statements the file under extraction was written from
    used          \* what extract_used_components returned for it

vars == <<files, ignore_libs, project_only, phase, todo, graph, roots, md_lines,
          output, stdout, stderr, run, prev_output, call, tree, stmts, used>>

Absent == [exists |-> FALSE, lines |-> <<>>]

\* component_set = set(file_to_component.values()).
component_set == {extract_component_name(f) : f \in files}

\* The state of a process that has parsed its arguments and discovered files.
Start(F, libs, po) ==
    /\ files = F
    /\ ignore_libs = libs
    /\ project_only = po
    /\ phase = "build"
    /\ todo = F
    /\ graph = <<>>
    /\ roots = <<>>
    /\ md_lines = <<>>
    /\ output = Absent
    /\ stdout = <<>>
    /\ stderr = <<>>
    /\ run = 1
    /\ prev_output = Absent
    /\ call = ""
    /\ tree = <<>>
    /\ stmts = <<>>
    /\ used = {}

\* A run of the program over a directory.
Init ==
    \E F \in SubsetsUpTo(FileOptions, MaxFiles), po \in BOOLEAN :
        Start(F, {"mylib"}, po)

\* One iteration of the loop of build_component_graph, over any file not yet
\* visited (os.walk fixes no order), the used set iterated in any order.
BuildFile ==
    /\ phase = "build"
    /\ \E file \in todo, seed \in HashSeeds :
         LET comp == extract_component_name(file)
             r == extract_used_components(file, ignore_libs)
         IN  /\ stdout' = stdout \o r.printed
             /\ IF r.raised
                THEN /\ phase' = "crashed"
                     /\ UNCHANGED <<todo, graph>>
                ELSE /\ graph' = add_used(graph, comp, Iter(r.used, seed),
                                          project_only, component_set)
                     /\ todo' = todo \ {file}
                     /\ phase' = phase
    /\ UNCHANGED <<files, ignore_libs, project_only, roots, md_lines, output,
                   stderr, run, prev_output, call, tree, stmts, used>>

\* main after build_component_graph returned: find_roots, the front matter,
\* and sorted(roots).
FindRoots ==
    /\ phase = "build"
    /\ todo = {}
    /\ \E seed \in HashSeeds : roots' = sorted(find_roots(graph, seed))
    /\ md_lines' = FrontMatter
    /\ phase' = "render"
    /\ UNCHANGED <<files, ignore_libs, project_only, todo, graph, output, stdout,
                   stderr, run, prev_output, call, tree, stmts, used>>

\* One iteration of main's loop over the sorted roots. The rendering is one
\* string ended by "\n", so the join puts an empty line after it.
RenderRoot ==
    /\ phase = "render"
    /\ roots # <<>>
    /\ \E seed \in HashSeeds :
         LET md == generate_markdown_tree(graph, Head(roots), 0, {}, seed)
         IN  IF Raised(md)
             THEN /\ phase' = "crashed"
                  /\ UNCHANGED <<roots, md_lines>>
             ELSE /\ md_lines' = md_lines \o <<Heading(Head(roots)), Text("")>>
                                 \o md \o <<Text("")>>
                  /\ roots' = Tail(roots)
                  /\ phase' = phase
    /\ UNCHANGED <<files, ignore_libs, project_only, todo, graph, output, stdout,
                   stderr, run, prev_output, call, tree, stmts, used>>

\* The end of main: the join, the write and the success message.
WriteOutput ==
    /\ phase = "render"
    /\ roots = <<>>
    /\ output' = [exists |-> TRUE, lines |-> md_lines]
    /\ stdout' = Append(stdout, Success)
    /\ phase' = "done"
    /\ UNCHANGED <<files, ignore_libs, project_only, todo, graph, roots, md_lines,
                   stderr, run, prev_output, call, tree, stmts, used>>

\* The program is started again on the unchanged directory.
Rerun ==
    /\ phase = "done"
    /\ run = 1
    /\ run' = 2
    /\ prev_output' = output
    /\ phase' = "build"
    /\ todo' = files
    /\ graph' = <<>>
    /\ md_lines' = <<>>
    /\ stdout' = <<>>
    /\ stderr' = <<>>
    /\ UNCHANGED <<files, ignore_libs, project_only, roots, output, call, tree,
                   stmts, used>>

Next == BuildFile \/ FindRoots \/ RenderRoot \/ WriteOutput \/ Rerun

Spec == Init /\ [][Next]_vars

\* ---------------------------------------- the functions on any graph ----
\* find_roots and the rest of main, or generate_markdown_tree, on any graph.
InitGraph ==
    \E g \in Graphs :
        /\ files = {}
        /\ ignore_libs = {}
        /\ project_only = FALSE
        /\ phase = "build"
        /\ todo = {}
        /\ graph = g
        /\ roots = <<>>
        /\ md_lines = <<>>
        /\ output = Absent
        /\ stdout = <<>>
        /\ stderr = <<>>
        /\ run = 1
        /\ prev_output = Absent
        /\ call = ""
        /\ tree = <<>>
        /\ stmts = <<>>
        /\ used = {}

\* generate_markdown_tree(graph, node): indent 0, visited None.
TreeCall ==
    /\ phase = "build"
    /\ \E node \in Names, seed \in HashSeeds :
         /\ call' = node
         /\ tree' = generate_markdown_tree(graph, node, 0, {}, seed)
    /\ phase' = "called"
    /\ UNCHANGED <<files, ignore_libs, project_only, todo, graph, roots, md_lines,
                   output, stdout, stderr, run, prev_output, stmts, used>>

NextGraph == FindRoots \/ RenderRoot \/ WriteOutput \/ TreeCall

SpecGraph == InitGraph /\ [][NextGraph]_vars

\* ------------------------------------- extraction from any one file ----
InitExtract ==
    \E q \in SeqsUpTo(Stmts, MaxStmts), libs \in SUBSET {"mylib"} :
        /\ files = {File("A", TRUE, Content(q))}
        /\ ignore_libs = libs
        /\ project_only = FALSE
        /\ phase = "extract"
        /\ todo = {}
        /\ graph = <<>>
        /\ roots = <<>>
        /\ md_lines = <<>>
        /\ output = Absent
        /\ stdout = <<>>
        /\ stderr = <<>>
        /\ run = 1
        /\ prev_output = Absent
        /\ call = ""
        /\ tree = <<>>
        /\ stmts = q
        /\ used = {}

\* extract_used_components(file, ignore_libs).
Extract ==
    /\ phase = "extract"
    /\ \E file \in files :
         LET r == extract_used_components(file, ignore_libs)
         IN  /\ used' = r.used
             /\ stdout' = stdout \o r.printed
    /\ phase' = "extracted"
    /\ UNCHANGED <<files, ignore_libs, project_only, todo, graph, roots, md_lines,
                   output, stderr, run, prev_output, call, tree, stmts>>

NextExtract == Extract

SpecExtract == InitExtract /\ [][NextExtract]_vars

\* ------------------------------------------------------------ claims ----
Range(q) == {q[i] : i \in DOMAIN q}

\* The edges and the nodes of a graph, read off its entries.
EdgesOf(g) == UNION {{<<g[i].comp, u>> : u \in g[i].used} : i \in DOMAIN g}
TargetsOf(g) == {e[2] : e \in EdgesOf(g)}
NodesOf(g) == Keys(g) \cup TargetsOf(g)
InDegree(g, n) == Cardinality({e \in EdgesOf(g) : e[2] = n})
ZeroInDegree(g) == {n \in NodesOf(g) : InDegree(g, n) = 0}

\* The nodes that paths from S reach.
RECURSIVE ReachableFrom(_, _)
ReachableFrom(g, S) ==
    LET more == S \cup {e[2] : e \in {x \in EdgesOf(g) : x[1] \in S}}
    IN  IF more = S THEN S ELSE ReachableFrom(g, more)

\* The set S as the list in lexicographic order, without duplicates.
SortedListOf(S) == SelectSeq(Alphabet, LAMBDA n : n \in S)

\* The names of the '## <name>' headings of the lines, in order.
HeadingsOf(lines) ==
    LET h == SelectSeq(lines, LAMBDA l : l.kind = "heading")
    IN  [i \in DOMAIN h |-> h[i].text]

\* The names that are a heading or a bullet of the lines.
NamesIn(lines) ==
    {lines[i].text : i \in {j \in DOMAIN lines :
                              lines[j].kind \in {"heading", "bullet"}}}

\* What a file uses, as extract_used_components finds it.
UsedBy(f) == extract_used_components(f, ignore_libs).used

\* C1: when main is done, every discovered component that no other
\* discovered component references has a '## <name>' heading in the output,
\* also one that uses no component and one referenced only by itself.
C1_UnreferencedComponentsAreRoots ==
    phase = "done" =>
        \A f \in files :
            (\A g \in files : g.name # f.name => f.name \notin UsedBy(g))
            => f.name \in Range(HeadingsOf(output.lines))

C3_KeysAndProjectOnlyTargetsAreComponents ==
    /\ Keys(graph) \subseteq component_set
    /\ project_only => TargetsOf(graph) \subseteq component_set

\* C3's case: project-only mode, a file that uses a name without a file, and
\* edges in the finished graph.
C3_Witness ==
    /\ project_only
    /\ phase = "done"
    /\ graph # <<>>
    /\ \E f \in files : ~(UsedBy(f) \subseteq component_set)

\* The tag names of the statements a file was written from.
TagNamesOf(q) == {q[i].name : i \in {j \in DOMAIN q : q[j].kind = "tag"}}

\* The names the statements import from the ignored libraries: the default
\* name, and the original name of every named specifier.
IgnoredNamesOf(q, libs) ==
    UNION {(IF q[i].kind \in {"default", "mixed"} THEN {q[i].name} ELSE {})
           \cup {q[i].specs[k].name : k \in DOMAIN q[i].specs} :
           i \in {j \in DOMAIN q : /\ q[j].kind \in {"default", "named", "mixed"}
                                   /\ q[j].module \in libs}}

\* C4: for every readable file and every ignore-libs list, the used set is
\* the set of tag names minus the names bound by default or named imports
\* from an ignored library, a specifier 'X as Y' counting as X.
C4_UsedIsTagsMinusIgnoredImports ==
    phase = "extracted" => used = TagNamesOf(stmts) \ IgnoredNamesOf(stmts, ignore_libs)

\* C5: for every graph and start node generate_markdown_tree returns (it
\* raises no RecursionError, alone or under main), and no chain of nested
\* bullets is longer than the number of nodes plus one; {A: {B}, B: {A}}
\* from A gives the chain A, B, A.
C5_RenderingTerminatesWithBoundedChains ==
    /\ phase # "crashed"
    /\ \A i \in DOMAIN md_lines :
         md_lines[i].depth + 1 <= Cardinality(NodesOf(graph)) + 1
    /\ phase = "called" =>
         /\ ~Raised(tree)
         /\ \A i \in DOMAIN tree :
              tree[i].depth + 1 <= Cardinality(NodesOf(graph)) + 1
         /\ (EdgesOf(graph) = {<<"A", "B">>, <<"B", "A">>} /\ call = "A")
            => tree = <<Bullet(0, "A"), Bullet(1, "B"), Bullet(2, "A")>>

\* C5's case: a graph of at least two nodes with a cycle, rendered to a
\* chain of as many bullets as it has nodes, plus one.
C5_Witness ==
    /\ phase = "called"
    /\ Cardinality(NodesOf(graph)) >= 2
    /\ \E i \in DOMAIN tree : tree[i].depth = Cardinality(NodesOf(graph))

\* C6: the second run over the unchanged directory writes what the first
\* wrote, whatever the orders of discovery, merging and set iteration.
C6_SecondRunWritesTheSame ==
    (run = 2 /\ phase = "done") => output = prev_output

\* C6's case: a second run that ended, with at least two roots to order.
C6_Witness ==
    /\ run = 2
    /\ phase = "done"
    /\ Len(HeadingsOf(output.lines)) >= 2

\* A file as it would be if it were readable and empty.
AsEmpty(f) == IF f.readable THEN f ELSE File(f.name, TRUE, <<>>)

\* The edges the files' used sets give, an unreadable file taken as empty.
EdgesOfReadable ==
    UNION {{<<f.name, u>> :
              u \in {x \in extract_used_components(AsEmpty(f), ignore_libs).used :
                       ~project_only \/ x \in component_set}} :
           f \in files}

\* C7: a read failure never ends the run; when main is done the output file
\* is written and the graph holds exactly the edges the other files give,
\* as if every unreadable file were readable and empty.
C7_ReadFailureIsAnEmptyFile ==
    /\ phase # "crashed"
    /\ phase = "done" => /\ output.exists
                         /\ EdgesOf(graph) = EdgesOfReadable

\* C7's case: a finished run over an unreadable file and a file with edges.
C7_Witness ==
    /\ phase = "done"
    /\ \E f \in files : ~f.readable
    /\ graph # <<>>

\* C8: every read error message is on standard error, and standard output
\* holds the success message only.
C8_ErrorsOnStderrOnly ==
    phase = "done" =>
        /\ stdout = <<Success>>
        /\ \A f \in files :
             ~f.readable => ErrorMessage("Error reading", f) \in Range(stderr)

\* The depth of line i of a rendering.
DepthAt(md, i) == md[i].depth

\* The lines that are the child bullets of line i: the lines one level
\* deeper that follow it before any line of its level or above.
ChildLines(md, i) ==
    {j \in DOMAIN md : /\ j > i
                       /\ DepthAt(md, j) = DepthAt(md, i) + 1
                       /\ \A k \in (i + 1)..(j - 1) : DepthAt(md, k) > DepthAt(md, i)}

\* The names of the child bullets of line i, in the order written.
ChildNames(md, i) ==
    LET c == ChildLines(md, i)
    IN  [k \in 1..Cardinality(c) |->
           md[CHOOSE j \in c : Cardinality({m \in c : m <= j}) = k].text]

\* The names of the bullets line i is nested in.
AncestorNames(md, i) ==
    {md[k].text : k \in {j \in 1..(i - 1) :
                           /\ DepthAt(md, j) < DepthAt(md, i)
                           /\ \A m \in (j + 1)..i : DepthAt(md, m) > DepthAt(md, j)}}

\* C9: in a rendering, a bullet at depth d has 2*d leading spaces; a bullet
\* whose node is none of its ancestors is followed by one depth d+1 bullet
\* per element of the node's used set, in lexicographic order; a bullet whose
\* node is one of its ancestors has no child bullets.
C9_RenderingShape ==
    phase = "called" =>
        /\ tree # <<>> /\ tree[1].depth = 0 /\ tree[1].text = call
        /\ \A i \in DOMAIN tree :
             /\ tree[i].kind = "bullet"
             /\ tree[i].spaces = 2 * tree[i].depth
             /\ i > 1 => tree[i].depth \in 1..(tree[i - 1].depth + 1)
             /\ IF tree[i].text \in AncestorNames(tree, i)
                THEN ChildLines(tree, i) = {}
                ELSE ChildNames(tree, i)
                       = SortedListOf({e[2] : e \in {x \in EdgesOf(graph) :
                                                       x[1] = tree[i].text}})

\* C9's case: a node with two children, a bullet that repeats an ancestor,
\* and a node expanded in full under two sibling branches.
C9_Witness ==
    /\ phase = "called"
    /\ \E i \in DOMAIN tree : Cardinality(ChildLines(tree, i)) >= 2
    /\ \E i \in DOMAIN tree : tree[i].text \in AncestorNames(tree, i)
    /\ \E i, j \in DOMAIN tree :
         /\ i # j
         /\ tree[i].text = tree[j].text
         /\ ChildLines(tree, i) # {}
         /\ ChildLines(tree, j) # {}

\* C10 as stated: when main is done, every graph key is a heading or a
\* bullet of the output, also the keys on a cycle no zero-in-degree node
\* reaches. Stated for the graphs in which no component uses itself, where
\* a node of in-degree 0 is exactly a component no other component uses.
C10_EveryKeyAppears ==
    (phase = "done" /\ \A e \in EdgesOf(graph) : e[1] # e[2])
    => Keys(graph) \subseteq NamesIn(output.lines)

\* C10 as amended: when main is done, every graph key that a zero-in-degree
\* node reaches is a heading or a bullet of the output.
C10_EveryReachedKeyAppears ==
    phase = "done" =>
        (Keys(graph) \cap ReachableFrom(graph, ZeroInDegree(graph)))
            \subseteq NamesIn(output.lines)

\* C10's case: a root with two children of which the later one is a key.
C10_Witness ==
    /\ phase = "done"
    /\ \E r \in ZeroInDegree(graph), k \in Keys(graph) :
         /\ k # r
         /\ <<r, k>> \in EdgesOf(graph)
         /\ \E n \in Names : <<r, n>> \in EdgesOf(graph) /\ Rank(n) < Rank(k)
====
